---- MODULE Spec2Model ----
(***************************************************************************)
(* State-machine model of the Phase Diversity FastAPI gateway              *)
(* (src/backend/app/main.py).                                              *)
(*                                                                         *)
(* Part 1: /api/parse-images = load_flexible_image_collection followed by  *)
(*         the body of parse_images.  The uploaded files are revealed to   *)
(*         the loader one file / one HDU / one cube slice at a time, in    *)
(*         the order the code reads them, so every combination of files,   *)
(*         HDUs, 2D images and 3D cubes within the bounds is explored.     *)
(* Part 2: /api/preview-config and /api/search-phase, run as coroutines of *)
(*         one asyncio event loop over the process-wide sys.stdin and      *)
(*         sys.stdout.                                                     *)
(* Part 3: the core's Opticsetup (Setup Orchestrator) and its solver, as   *)
(*         spec.md sections 3, 4.5, 4.6 and 7 describe them (the core is   *)
(*         imported by main.py; its source is not part of src/).           *)
(* Part 4: the core's parameter codec and mappy (spec.md 4.3, 4.6), with   *)
(*         the arguments main.py passes to them.                           *)
(* Part 5: /ws/logs, WebSocketHandler.emit and emit_async as coroutines of *)
(*         the event loop over the shared list active_websockets.          *)
(* Part 6: StdoutToLogger.write and .flush while sys.stdout is bound to    *)
(*         the StdoutToLogger itself.                                      *)
(***************************************************************************)
EXTENDS Integers, Sequences, FiniteSets, TLC

VARIABLES
    \* ---- /api/parse-images ----
    lpc,            \* position in load_flexible_image_collection / parse_images
    files_read,     \* number of uploaded files whose content was read (file.read())
    files_seen,     \* number of uploaded files the file loop has visited
    hdus_seen,      \* number of HDUs of the current file the HDU loop has visited
    hdus_read,      \* total number of HDUs visited (all files)
    cube,           \* the 3D cube being sliced: [n, i, shape]
    images_list,    \* images_list: the (H, W) shape of every collected image
    warning,        \* warning: None or the "limit reached" message
    overflow,       \* history: an image or slice was met with MAX_IMAGES collected
    load_result,    \* how load_flexible_image_collection ended
    presp,          \* the response of parse_images
    \* ---- /api/preview-config and /api/search-phase ----
    profile,        \* the workload the clients send ("single" or "concurrent")
    started,        \* number of requests received so far
    running,        \* the coroutine the event loop is executing (0: none)
    sys_stdin,      \* the process-wide sys.stdin
    sys_stdout,     \* the process-wide sys.stdout
    heap,           \* the live Opticsetup objects, by identity
    req,            \* per request: the handler's position and local variables
    \* ---- the core's Opticsetup (Setup Orchestrator) and its solver ----
    orch,           \* the instance: its state, configuration and coefficient vector
    fit,            \* the solver's fit in progress, or how the last one ended
    searches,       \* number of search_phase calls made on the instance
    \* ---- the core's parameter codec and mappy, applied to one input ----
    kpc,            \* which function is applied next
    kin,            \* the input: parameter groups, a flat vector or a pixel vector
    kflat,          \* encode_coefficients(...) of the groups
    kback,          \* the groups decoded from kflat
    kflat2,         \* the decoded groups, encoded again
    mgrid,          \* mappy(...) of the pixel vector
    \* ---- /ws/logs and the logging handler ----
    active_websockets,  \* the module-level list active_websockets
    wsock,          \* per websocket: position of its websocket_logs handler, client
    tasks,          \* the emit_async tasks created by WebSocketHandler.emit
    delivered,      \* history: how often each websocket received each task's message
    stable,         \* history: the websockets registered since the task started
    emit_removed,   \* history: the websockets emit_async removed from the list
    \* ---- StdoutToLogger under the redirection of sys.stdout ----
    fl_stdout,      \* the object sys.stdout is bound to ("real" or "logger")
    fl              \* the core's use of sys.stdout: position, flush frames, outcome

pvars == <<lpc, files_read, files_seen, hdus_seen, hdus_read, cube, images_list,
           warning, overflow, load_result, presp>>

rvars == <<profile, started, running, sys_stdin, sys_stdout, heap, req>>

cvars == <<orch, fit, searches>>

kvars == <<kpc, kin, kflat, kback, kflat2, mgrid>>

wvars == <<active_websockets, wsock, tasks, delivered, stable, emit_removed>>

fvars == <<fl_stdout, fl>>

\* what the gateway's handlers leave alone
ovars == <<cvars, kvars, wvars, fvars>>

\* the gateway's own state
gvars == <<pvars, rvars>>

vars == <<pvars, rvars, ovars>>

None == "None"

\* ------------------------------------------------------------------ bounds
MaxFiles  == 3      \* uploaded files per request
MaxHdus   == 2      \* HDUs per FITS file
MaxSlices == 5      \* slices of a 3D cube
MaxClients  == 2    \* requests that can be in flight together
MaxRequests == 3    \* requests received in one run of the concurrent workload
MaxDuration == 1    \* largest duration_ms a response reports
MaxIterations == 3  \* max_iterations of the solver
MaxDamping  == 2    \* levels of the damping factor
MaxResid    == 3    \* levels of the residual norm
MaxSearches == 2    \* search_phase calls on one instance
MaxNimg     == 2    \* images of the stack (per-image group length)
MaxModes    == 2    \* phase coefficients
MaxGrid     == 2    \* side N of the pupil grid
MaxSockets  == 3    \* websocket connections to /ws/logs in one run
MaxTasks    == 2    \* emit_async tasks created in one run
MaxDepth    == 40   \* frames the interpreter allows above the core's frame
MaxPrints   == 2    \* lines the core prints before it flushes

\* (H, W) shapes of the 2D images found in the files
Shapes == {<<1, 1>>, <<1, 2>>}

\* ------------------------------------------------------------------ program constants
MIN_IMAGES == 2
MAX_IMAGES == 10
STDIN_LINES == 100  \* StringIO("y\n" * 100)

LimitWarning == "Limite de 10 images atteinte. Les images suivantes ont ete ignorees."
MinDetail    == "Au moins 2 images sont requises."
StackDetail  == "Impossible d'empiler les images (dimensions incoherentes)"
AstypeDetail == "setting an array element with a sequence."

NoCube == [n |-> 0, i |-> 0, shape |-> <<0, 0>>]

NoResp == [status |-> 0, detail |-> None, nimages |-> 0,
           shape_consistent |-> FALSE, warning |-> None]

ErrorResp(code, msg) == [NoResp EXCEPT !.status = code, !.detail = msg]

\* ------------------------------------------------------------------ load_flexible_image_collection

\* lines 318-319: after the with block, a set warning leaves the file loop
AfterWith(w) == IF w # None THEN "final" ELSE "file_loop"

\* lines 316-317: after an HDU, a set warning leaves the HDU loop (and the with
\* block); otherwise the HDU loop goes on
AfterHdu(w) == IF w # None THEN AfterWith(w) ELSE "hdu_loop"

\* lines 281-283 / 301-303: the limit test made before every append
LimitReachedOffByOne(imgs) == Len(imgs) > MAX_IMAGES
LimitReached(imgs) == Len(imgs) >= MAX_IMAGES

\* line 255, end of the file loop: no file is left
FilesExhausted ==
    /\ lpc = "file_loop"
    /\ lpc' = "final"
    /\ UNCHANGED <<files_read, files_seen, hdus_seen, hdus_read, cube, images_list,
                   warning, overflow, load_result, presp, rvars, ovars>>

\* lines 256-258: a file whose name does not end in .fits/.fit is skipped unread
SkipNonFits ==
    /\ lpc = "file_loop"
    /\ files_seen < MaxFiles
    /\ files_seen' = files_seen + 1
    /\ UNCHANGED <<lpc, files_read, hdus_seen, hdus_read, cube, images_list,
                   warning, overflow, load_result, presp, rvars, ovars>>

\* lines 260-263 and 321-324: the file is read; fits.open either opens it or
\* raises, and the except clause goes on with the next file
ReadFile ==
    /\ lpc = "file_loop"
    /\ files_seen < MaxFiles
    /\ files_seen' = files_seen + 1
    /\ files_read' = files_read + 1
    /\ hdus_seen' = 0
    /\ \E opens \in BOOLEAN : lpc' = IF opens THEN "hdu_loop" ELSE "file_loop"
    /\ UNCHANGED <<hdus_read, cube, images_list, warning, overflow, load_result, presp, rvars, ovars>>

\* line 265, end of the HDU loop: the with block ends, then line 318
HdusExhausted ==
    /\ lpc = "hdu_loop"
    /\ lpc' = AfterWith(warning)
    /\ UNCHANGED <<files_read, files_seen, hdus_seen, hdus_read, cube, images_list,
                   warning, overflow, load_result, presp, rvars, ovars>>

\* lines 267-268 (not an image, no data), or data of a dimension other than 2
\* and 3 (neither branch of lines 276 / 297 is taken); line 316
SkipHdu ==
    /\ lpc = "hdu_loop"
    /\ hdus_seen < MaxHdus
    /\ hdus_seen' = hdus_seen + 1
    /\ hdus_read' = hdus_read + 1
    /\ lpc' = AfterHdu(warning)
    /\ UNCHANGED <<files_read, files_seen, cube, images_list, warning, overflow,
                   load_result, presp, rvars, ovars>>

\* an HDU whose header or data cannot be decoded raises inside the with block:
\* lines 321-324 log it and go on with the next file
CorruptHdu ==
    /\ lpc = "hdu_loop"
    /\ hdus_seen < MaxHdus
    /\ hdus_seen' = hdus_seen + 1
    /\ hdus_read' = hdus_read + 1
    /\ lpc' = "file_loop"
    /\ UNCHANGED <<files_read, files_seen, cube, images_list, warning, overflow,
                   load_result, presp, rvars, ovars>>

\* lines 297-314 and 316: a 2D image
Image2D ==
    /\ lpc = "hdu_loop"
    /\ hdus_seen < MaxHdus
    /\ hdus_seen' = hdus_seen + 1
    /\ hdus_read' = hdus_read + 1
    /\ \E shape \in Shapes :
         /\ overflow' = (overflow \/ Len(images_list) >= MAX_IMAGES)
         /\ IF LimitReached(images_list)
              THEN /\ warning' = LimitWarning
                   /\ lpc' = AfterWith(LimitWarning)   \* break, then line 318
                   /\ UNCHANGED images_list
              ELSE /\ images_list' = Append(images_list, shape)
                   /\ lpc' = AfterHdu(warning)
                   /\ UNCHANGED warning
    /\ UNCHANGED <<files_read, files_seen, cube, load_result, presp, rvars, ovars>>

\* lines 276-280: a 3D cube (N, H, W) is met; its slices are taken one by one
Cube3D ==
    /\ lpc = "hdu_loop"
    /\ hdus_seen < MaxHdus
    /\ hdus_seen' = hdus_seen + 1
    /\ hdus_read' = hdus_read + 1
    /\ \E n \in 0..MaxSlices, shape \in Shapes :
         cube' = [n |-> n, i |-> 0, shape |-> shape]
    /\ lpc' = "cube_loop"
    /\ UNCHANGED <<files_read, files_seen, images_list, warning, overflow,
                   load_result, presp, rvars, ovars>>

\* lines 280-294: one iteration of `for i in range(data.shape[0])`
CubeSlice ==
    /\ lpc = "cube_loop"
    /\ cube.i < cube.n
    /\ overflow' = (overflow \/ Len(images_list) >= MAX_IMAGES)
    /\ IF LimitReached(images_list)
         THEN /\ warning' = LimitWarning
              /\ lpc' = AfterHdu(LimitWarning)         \* break, then line 316
              /\ cube' = NoCube
              /\ UNCHANGED images_list
         ELSE /\ images_list' = Append(images_list, cube.shape)
              /\ cube' = [cube EXCEPT !.i = @ + 1]
              /\ UNCHANGED <<warning, lpc>>
    /\ UNCHANGED <<files_read, files_seen, hdus_seen, hdus_read, load_result, presp, rvars, ovars>>

\* line 280, end of the slice loop, then line 316
CubeDone ==
    /\ lpc = "cube_loop"
    /\ cube.i = cube.n
    /\ cube' = NoCube
    /\ lpc' = AfterHdu(warning)
    /\ UNCHANGED <<files_read, files_seen, hdus_seen, hdus_read, images_list,
                   warning, overflow, load_result, presp, rvars, ovars>>

\* lines 449-453: parse_images re-raises an HTTPException as it is
ParseExceptWrapsAll(status, detail) == ErrorResp(500, detail)
ParseExcept(status, detail) == ErrorResp(status, detail)

\* lines 327-334: the final validation; the HTTPException it raises leaves
\* parse_images through lines 449-450
TooFew(imgs) == Len(imgs) < MIN_IMAGES

FinalValidation ==
    /\ lpc = "final"
    /\ IF TooFew(images_list)
         THEN /\ load_result' = "raised400"
              /\ presp' = ParseExcept(400, MinDetail)
              /\ lpc' = "done"
         ELSE /\ load_result' = "returned"
              /\ lpc' = "loaded"
              /\ UNCHANGED presp
    /\ UNCHANGED <<files_read, files_seen, hdus_seen, hdus_read, cube, images_list,
                   warning, overflow, rvars, ovars>>

\* ------------------------------------------------------------------ parse_images

\* lines 380-389: every image is compared with the first one
ShapeConsistent(imgs) == \A k \in 2..Len(imgs) : imgs[k] = imgs[1]

\* lines 392-404: np.array(images_list) followed by astype(float64).  On ragged
\* input np.array raises ValueError (-> 400, lines 394-399) or, with a NumPy
\* that still builds an object array, astype raises ValueError (-> 500, lines
\* 451-453).  Equal shapes always stack.
StackOutcomesLenient(imgs) == {"stacked"}
StackOutcomes(imgs) ==
    IF ShapeConsistent(imgs) THEN {"stacked"} ELSE {"np_array_raises", "astype_raises"}

StackImages ==
    /\ lpc = "loaded"
    /\ \E o \in StackOutcomes(images_list) :
         CASE o = "stacked" ->
                /\ lpc' = "stacked"
                /\ UNCHANGED presp
           [] o = "np_array_raises" ->
                /\ lpc' = "done"
                /\ presp' = ParseExcept(400, StackDetail)
           [] o = "astype_raises" ->
                /\ lpc' = "done"
                /\ presp' = ErrorResp(500, AstypeDetail)
    /\ UNCHANGED <<files_read, files_seen, hdus_seen, hdus_read, cube, images_list,
                   warning, overflow, load_result, rvars, ovars>>

\* lines 409-447: statistics, thumbnails and the response
ParseRespond ==
    /\ lpc = "stacked"
    /\ presp' = [status |-> 200, detail |-> None, nimages |-> Len(images_list),
                 shape_consistent |-> ShapeConsistent(images_list),
                 warning |-> warning]
    /\ lpc' = "done"
    /\ UNCHANGED <<files_read, files_seen, hdus_seen, hdus_read, cube, images_list,
                   warning, overflow, load_result, rvars, ovars>>

\* ------------------------------------------------------------------ requests

Clients == 1..MaxClients

\* the nine coefficient groups of an Opticsetup (OpticalConfigRequest, lines 94-119)
Fields == {"phase", "illum", "defoc_z", "optax_x", "optax_y", "focscale",
           "object_fwhm_pix", "amplitude", "background"}

\* the groups main.py stores through np.array(...) (lines 621, 631, 635, 639,
\* 655, 659); illum, focscale and object_fwhm_pix are stored as supplied
ArrayFields == {"phase", "defoc_z", "optax_x", "optax_y", "amplitude", "background"}
ScalarFields == {"focscale", "object_fwhm_pix"}

\* the activation flags of SearchPhaseRequest (lines 130-137)
Flags == {"defoc_z_flag", "focscale_flag", "optax_flag", "amplitude_flag",
          "background_flag", "phase_flag", "illum_flag", "objsize_flag"}

DefaultFlags == {"amplitude_flag", "phase_flag"}

\* the group(s) each flag activates
FlagOf(f) ==
    CASE f = "defoc_z"         -> "defoc_z_flag"
      [] f = "focscale"        -> "focscale_flag"
      [] f = "optax_x"         -> "optax_flag"
      [] f = "optax_y"         -> "optax_flag"
      [] f = "amplitude"       -> "amplitude_flag"
      [] f = "background"      -> "background_flag"
      [] f = "phase"           -> "phase_flag"
      [] f = "illum"           -> "illum_flag"
      [] f = "object_fwhm_pix" -> "objsize_flag"

\* numpy.ndarray and Python list, told apart
NpArray(l) == [kind |-> "ndarray", data |-> l]
PyList(l)  == [kind |-> "list", data |-> l]

\* ndarray.tolist() / float(): the JSON value of an attribute
ToJson(f, v) == IF f \in ScalarFields THEN v ELSE v.data

\* the continuation value a client supplies for a group (JSON list or number)
ContValue(f) ==
    CASE f = "phase"           -> <<3, 1, 4>>
      [] f = "illum"           -> <<2, 2>>
      [] f = "defoc_z"         -> <<0, 5>>
      [] f = "optax_x"         -> <<6, 0>>
      [] f = "optax_y"         -> <<0, 6>>
      [] f = "focscale"        -> 2
      [] f = "object_fwhm_pix" -> 3
      [] f = "amplitude"       -> <<8, 9>>
      [] f = "background"      -> <<1, 1>>

\* the configurations a request carries, by what the core makes of them
Configs == {"nominal", "undersampled", "zero_area", "degenerate", "slow"}

NoInitial == [f \in {} |-> 0]
NoBody == [endpoint |-> None, cfg |-> None, initial |-> NoInitial, flags |-> {}]

\* the initial_* fields: a field that is None is absent from the function
Initials(fieldsets) == {[f \in S |-> ContValue(f)] : S \in fieldsets}

AllBodies ==
    [endpoint : {"preview", "search"}, cfg : Configs,
     initial : Initials(SUBSET Fields),
     flags : {DefaultFlags, {"defoc_z_flag", "focscale_flag", "optax_flag"}}]

SmallBodies ==
    [endpoint : {"preview", "search"}, cfg : {"nominal", "undersampled", "degenerate"},
     initial : Initials({{}, {"phase"}}),
     flags : {DefaultFlags}]

Bodies == IF profile = "single" THEN AllBodies ELSE SmallBodies
Budget == IF profile = "single" THEN 1 ELSE MaxRequests

RealStdin  == [kind |-> "real", owner |-> 0, lines |-> 0]
RealStdout == [kind |-> "real", owner |-> 0]

\* line 481 / 585: StringIO("y\n" * 100)
MockStdin(r) == [kind |-> "mock", owner |-> r, lines |-> STDIN_LINES]

\* line 482 / 586 / 687: StdoutToLogger(logger)
LoggerStdout(r) == [kind |-> "logger", owner |-> r]

NoResults == [f \in {} |-> 0]

NoResponse == [status |-> 0, success |-> FALSE, keys |-> {}, detail |-> None,
               warnings |-> {}, results |-> NoResults, duration_ms |-> 0]

IdleReq == [pc |-> "idle", body |-> NoBody,
            old_stdin |-> RealStdin, old_stdout |-> RealStdout,
            old_stdout_search |-> RealStdout,
            opticsetup |-> 0,          \* the local `opticsetup` (0: unbound)
            exc |-> None,              \* the exception in flight
            advisories |-> {},         \* history: the warnings the core raised
            search_call |-> "none",    \* history: opticsetup.search_phase call
            sent |-> 0,                \* history: responses sent
            response |-> NoResponse]

\* ---- the event loop
\* preview_config (lines 466-553) and search_phase (lines 567-866) contain no
\* await: once started, a handler runs to its return without giving the loop back
SuspensionPointsAwaitCore == {"constructing", "searching"}
SuspensionPoints == {}

CanStep(r, at) ==
    /\ req[r].pc = at
    /\ \/ running = r
       \/ running = 0 /\ (at = "pending" \/ at \in SuspensionPoints)

NextRunning(r, to) == IF to = "done" \/ to \in SuspensionPoints THEN 0 ELSE r

Executing(r) == req[r].pc \notin {"idle", "pending", "done"}

\* ---- the core (app.core.diversity), from its contract
\* advisories of construction: each is printed and answered from sys.stdin
ConstructAdvisories(cfg) == IF cfg = "undersampled" THEN {"shannon"} ELSE {}
ConstructFault(cfg) == IF cfg = "zero_area" THEN "zero-area pupil geometry" ELSE None
SearchAdvisories(cfg) == IF cfg = "slow" THEN {"not converged"} ELSE {}
SearchFault(cfg) == IF cfg = "degenerate" THEN "singular linear system" ELSE None

\* the coefficient groups right after construction
Constructed(body) ==
    [f \in Fields |->
        CASE f = "defoc_z"         -> NpArray(<<0, 2>>)
          [] f = "illum"           -> PyList(<<1>>)
          [] f = "object_fwhm_pix" -> 0
          [] f = "focscale"        -> 1
          [] f = "phase"           -> NpArray(<<0, 0, 0>>)
          [] OTHER                 -> NpArray(<<0, 0>>)]

Modulus == 10
FitValue(f, v) ==
    IF f \in ScalarFields THEN (v + 1) % Modulus
    ELSE [v EXCEPT !.data = [k \in DOMAIN v.data |-> (v.data[k] + 1) % Modulus]]

\* a solve: the active groups move, the inactive ones are held
Solve(vals, flags) ==
    [f \in Fields |-> IF FlagOf(f) \in flags THEN FitValue(f, vals[f]) ELSE vals[f]]

\* ---- object identity
FreshId(h) == CHOOSE i \in 1..(Cardinality(DOMAIN h) + 1) : i \notin DOMAIN h

\* div.Opticsetup(...) (lines 486-509 / 590-613) binds a new object
NewInstance(h, r, body) ==
    [i \in DOMAIN h \cup {FreshId(h)} |->
        IF i \in DOMAIN h THEN h[i]
        ELSE [vals |-> Constructed(body), state |-> "Configured",
              owner |-> r, accessed_by |-> {r}]]

\* the handler returns or raises: its local `opticsetup` was the only reference
HeapAfterReturnKept(h, id) == h
HeapAfterReturn(h, id) == [i \in DOMAIN h \ {id} |-> h[i]]

Touch(h, id, r) == [h EXCEPT ![id].accessed_by = @ \cup {r}]

\* ---- the handlers

\* a request reaches the server and its handler task is created
Arrive(r) ==
    /\ req[r].pc \in {"idle", "done"}
    /\ started < Budget
    /\ started' = started + 1
    /\ \E body \in Bodies :
         req' = [req EXCEPT ![r] = [IdleReq EXCEPT !.pc = "pending", !.body = body]]
    /\ UNCHANGED <<profile, running, sys_stdin, sys_stdout, heap, pvars, ovars>>

\* lines 467-482 / 568-586: save and replace sys.stdin and sys.stdout
EnterConstruct(r) ==
    /\ CanStep(r, "pending")
    /\ req' = [req EXCEPT ![r].pc = "constructing",
                          ![r].old_stdin = sys_stdin,
                          ![r].old_stdout = sys_stdout]
    /\ sys_stdin' = MockStdin(r)
    /\ sys_stdout' = LoggerStdout(r)
    /\ running' = NextRunning(r, "constructing")
    /\ UNCHANGED <<profile, started, heap, pvars, ovars>>

\* lines 486-509 / 590-613: div.Opticsetup(...) runs in the core
CoreConstruct(r) ==
    /\ CanStep(r, "constructing")
    /\ LET cfg  == req[r].body.cfg
           adv  == ConstructAdvisories(cfg)
           need == Cardinality(adv)
       IN  IF need > 0 /\ sys_stdin.kind = "real"
             THEN \* the prompt waits on the process's standard input
                  /\ req' = [req EXCEPT ![r].pc = "blocked", ![r].advisories = adv]
                  /\ UNCHANGED <<sys_stdin, heap, running>>
             ELSE IF need > sys_stdin.lines
             THEN \* input() meets the end of the mocked stream
                  /\ req' = [req EXCEPT ![r].pc = "construct_exit",
                                        ![r].advisories = adv,
                                        ![r].exc = "EOF when reading a line"]
                  /\ sys_stdin' = [sys_stdin EXCEPT !.lines = 0]
                  /\ running' = NextRunning(r, "construct_exit")
                  /\ UNCHANGED heap
             ELSE /\ sys_stdin' = [sys_stdin EXCEPT !.lines = @ - need]
                  /\ running' = NextRunning(r, "construct_exit")
                  /\ IF ConstructFault(cfg) # None
                       THEN /\ req' = [req EXCEPT ![r].pc = "construct_exit",
                                                  ![r].advisories = adv,
                                                  ![r].exc = ConstructFault(cfg)]
                            /\ UNCHANGED heap
                       ELSE /\ heap' = NewInstance(heap, r, req[r].body)
                            /\ req' = [req EXCEPT ![r].pc = "construct_exit",
                                                  ![r].advisories = adv,
                                                  ![r].opticsetup = FreshId(heap)]
    /\ UNCHANGED <<profile, started, sys_stdout, pvars, ovars>>

\* where the handler goes after the finally block of lines 510-513 / 614-617
AfterConstructAlwaysSearch(exc, endpoint) == IF exc # None THEN "except" ELSE "inject"
AfterConstruct(exc, endpoint) ==
    IF exc # None THEN "except"
    ELSE IF endpoint = "preview" THEN "preview_build" ELSE "inject"

\* lines 510-513 / 614-617: finally, restore sys.stdin and sys.stdout
ExitConstruct(r) ==
    /\ CanStep(r, "construct_exit")
    /\ sys_stdin' = req[r].old_stdin
    /\ sys_stdout' = req[r].old_stdout
    /\ LET to == AfterConstruct(req[r].exc, req[r].body.endpoint)
       IN  /\ req' = [req EXCEPT ![r].pc = to]
           /\ running' = NextRunning(r, to)
    /\ UNCHANGED <<profile, started, heap, pvars, ovars>>

ConfigInfoKeys == {"success", "config_info", "pupil_image", "illumination_image"}

\* lines 515-549: previews and configuration info of preview_config
PreviewRespond(r) ==
    /\ CanStep(r, "preview_build")
    /\ LET id == req[r].opticsetup
       IN  /\ req' = [req EXCEPT ![r].pc = "done",
                                 ![r].opticsetup = 0,
                                 ![r].sent = @ + 1,
                                 ![r].response =
                                     [NoResponse EXCEPT !.status = 200,
                                                        !.success = TRUE,
                                                        !.keys = ConfigInfoKeys]]
           /\ heap' = HeapAfterReturn(Touch(heap, id, r), id)
    /\ running' = NextRunning(r, "done")
    /\ UNCHANGED <<profile, started, sys_stdin, sys_stdout, pvars, ovars>>

\* lines 619-660: the nine `if config.initial_x is not None` assignments
InjectSwapped(vals, initial) ==
    [f \in Fields |->
        IF f = "optax_y" /\ "optax_x" \in DOMAIN initial THEN NpArray(initial["optax_x"])
        ELSE IF f \notin DOMAIN initial THEN vals[f]
        ELSE IF f \in ArrayFields THEN NpArray(initial[f])
        ELSE IF f = "illum" THEN PyList(initial[f])
        ELSE initial[f]]
Inject(vals, initial) ==
    [f \in Fields |->
        IF f \notin DOMAIN initial THEN vals[f]
        ELSE IF f \in ArrayFields THEN NpArray(initial[f])
        ELSE IF f = "illum" THEN PyList(initial[f])
        ELSE initial[f]]

\* lines 619-681: injection of the continuation values, then the previews and
\* configuration info (which only read the instance)
InjectInitial(r) ==
    /\ CanStep(r, "inject")
    /\ LET id == req[r].opticsetup
       IN  heap' = [Touch(heap, id, r) EXCEPT
                        ![id].vals = Inject(heap[id].vals, req[r].body.initial)]
    /\ req' = [req EXCEPT ![r].pc = "enter_search"]
    /\ running' = NextRunning(r, "enter_search")
    /\ UNCHANGED <<profile, started, sys_stdin, sys_stdout, pvars, ovars>>

\* lines 685-687: only sys.stdout is replaced around opticsetup.search_phase
EnterSearch(r) ==
    /\ CanStep(r, "enter_search")
    /\ req' = [req EXCEPT ![r].pc = "searching",
                          ![r].old_stdout_search = sys_stdout,
                          ![r].search_call = "entered"]
    /\ sys_stdout' = LoggerStdout(r)
    /\ running' = NextRunning(r, "searching")
    /\ UNCHANGED <<profile, started, sys_stdin, heap, pvars, ovars>>

\* lines 689-696: each activation flag of the request is passed to the keyword
\* of the same name
PassedFlagsAll(body) == Flags
PassedFlags(body) == body.flags

\* lines 688-700: opticsetup.search_phase(...) runs in the core
CoreSearch(r) ==
    /\ CanStep(r, "searching")
    /\ LET id  == req[r].opticsetup
           cfg == req[r].body.cfg
       IN  IF SearchFault(cfg) # None
             THEN /\ req' = [req EXCEPT ![r].pc = "search_exit",
                                        ![r].search_call = "raised",
                                        ![r].exc = SearchFault(cfg)]
                  /\ heap' = Touch(heap, id, r)
             ELSE /\ req' = [req EXCEPT ![r].pc = "search_exit",
                                        ![r].search_call = "returned",
                                        ![r].advisories = @ \cup SearchAdvisories(cfg)]
                  /\ heap' = [Touch(heap, id, r) EXCEPT
                                 ![id].vals = Solve(heap[id].vals, PassedFlags(req[r].body)),
                                 ![id].state = "Fitted"]
    /\ running' = NextRunning(r, "search_exit")
    /\ UNCHANGED <<profile, started, sys_stdin, sys_stdout, pvars, ovars>>

\* where the handler goes after the finally block of lines 701-702
AfterSearchSwallows(exc) == "extract"
AfterSearch(exc) == IF exc # None THEN "except" ELSE "extract"

\* line 702, inside finally: sys.stdout is restored whether or not
\* opticsetup.search_phase raised
StdoutAfterSearchNoFinally(r) ==
    IF req[r].exc # None THEN sys_stdout ELSE req[r].old_stdout_search
StdoutAfterSearch(r) == req[r].old_stdout_search

\* lines 701-703: finally, restore sys.stdout
ExitSearch(r) ==
    /\ CanStep(r, "search_exit")
    /\ sys_stdout' = StdoutAfterSearch(r)
    /\ LET to == AfterSearch(req[r].exc)
       IN  /\ req' = [req EXCEPT ![r].pc = to]
           /\ running' = NextRunning(r, to)
    /\ UNCHANGED <<profile, started, sys_stdin, heap, pvars, ovars>>

\* lines 801-816: the fitted groups, as JSON values
Results(vals) == [f \in Fields |-> ToJson(f, vals[f])]

\* lines 705-862: the results are read from the instance and returned
BuildResults(r) ==
    /\ CanStep(r, "extract")
    /\ LET id == req[r].opticsetup
       IN  /\ \E d \in 0..MaxDuration :
                req' = [req EXCEPT ![r].pc = "done",
                                   ![r].opticsetup = 0,
                                   ![r].sent = @ + 1,
                                   ![r].response =
                                       [NoResponse EXCEPT
                                           !.status = 200,
                                           !.success = TRUE,
                                           !.keys = ConfigInfoKeys
                                                      \cup {"results", "duration_ms"},
                                           !.results = Results(heap[id].vals),
                                           !.duration_ms = d]]
           /\ heap' = HeapAfterReturn(Touch(heap, id, r), id)
    /\ running' = NextRunning(r, "done")
    /\ UNCHANGED <<profile, started, sys_stdin, sys_stdout, pvars, ovars>>

\* lines 551-553 / 864-866: detail=str(e)
ErrorDetailGeneric(e) == "Internal Server Error"
ErrorDetail(e) == e

\* lines 551-553 / 864-866: except Exception -> HTTPException(500, detail=str(e))
HandleException(r) ==
    /\ CanStep(r, "except")
    /\ LET id == req[r].opticsetup
       IN  /\ req' = [req EXCEPT ![r].pc = "done",
                                 ![r].opticsetup = 0,
                                 ![r].sent = @ + 1,
                                 ![r].response =
                                     [NoResponse EXCEPT
                                         !.status = 500,
                                         !.keys = {"detail"},
                                         !.detail = ErrorDetail(req[r].exc)]]
           /\ heap' = IF id = 0 THEN heap ELSE HeapAfterReturn(heap, id)
    /\ running' = NextRunning(r, "done")
    /\ UNCHANGED <<profile, started, sys_stdin, sys_stdout, pvars, ovars>>

ReqInit ==
    /\ started = 0
    /\ running = 0
    /\ sys_stdin = RealStdin
    /\ sys_stdout = RealStdout
    /\ heap = [i \in {} |-> 0]
    /\ req = [r \in Clients |-> IdleReq]

ReqNext ==
    \E r \in Clients :
        \/ Arrive(r)
        \/ EnterConstruct(r)
        \/ CoreConstruct(r)
        \/ ExitConstruct(r)
        \/ PreviewRespond(r)
        \/ InjectInitial(r)
        \/ EnterSearch(r)
        \/ CoreSearch(r)
        \/ ExitSearch(r)
        \/ BuildResults(r)
        \/ HandleException(r)

ParseInit ==
    /\ lpc = "file_loop"
    /\ files_read = 0
    /\ files_seen = 0
    /\ hdus_seen = 0
    /\ hdus_read = 0
    /\ cube = NoCube
    /\ images_list = <<>>
    /\ warning = None
    /\ overflow = FALSE
    /\ load_result = "running"
    /\ presp = NoResp

ParseNext ==
    \/ FilesExhausted
    \/ SkipNonFits
    \/ ReadFile
    \/ HdusExhausted
    \/ SkipHdu
    \/ CorruptHdu
    \/ Image2D
    \/ Cube3D
    \/ CubeSlice
    \/ CubeDone
    \/ FinalValidation
    \/ StackImages
    \/ ParseRespond

\* ------------------------------------------------- Part 3: the Orchestrator
\* Opticsetup and its solver (spec 3, 4.5, 4.6, 7).  The coefficient vector is
\* a value of 0..Modulus-1; the residual norm of the current vector is a level
\* of 0..MaxResid that the data fix when the instance is built.

NoOrch == [state |-> "Absent", cfg |-> None, coeffs |-> 0, resid |-> 0]
NoFit  == [pc |-> "idle", initial_coeffs |-> 0, iters |-> 0, damping |-> 0,
           converged |-> FALSE, final_coeffs |-> 0, from |-> "Absent"]

\* spec 4.6: the states of an instance ("Absent": not constructed yet)
OrchStates == {"Configured", "Fitted"}

\* spec 4.6: the state a completed (converged or exhausted) solve leaves
StateAfterSolve(state) == "Fitted"

\* spec 4.6: search_phase solves from the current coefficient vector
InitialCoeffsFromDefaults(o) == IF o.state = "Fitted" THEN 0 ELSE o.coeffs
InitialCoeffs(o) == o.coeffs

\* spec 4.5: the iteration goes on while max_iterations is not reached
BudgetLeftOffByOne(f) == f.iters <= MaxIterations
BudgetLeft(f) == f.iters < MaxIterations

\* spec 4.5: the relative residual-norm improvement is below tolerance
\* (tolerance 1/2: the improvement is less than half of the residual norm)
BelowTolerance(old, new) == 2 * (old - new) < old \/ old = 0

\* spec 4.5: damping rises on a failed step and falls on a successful one
DampingUp(d)   == IF d < MaxDamping THEN d + 1 ELSE d
DampingDown(d) == IF d > 0 THEN d - 1 ELSE d

\* spec 4.6: construction from an image stack and a configuration record;
\* the coefficients are at their defaults (0) or at continuation values
OrchConstruct ==
    /\ orch.state = "Absent"
    /\ orch.cfg = None
    /\ \E cfg \in Configs, c \in {0, 1}, res \in 0..MaxResid :
          orch' = IF ConstructFault(cfg) # None
                    THEN [NoOrch EXCEPT !.cfg = cfg]
                    ELSE [state |-> "Configured", cfg |-> cfg, coeffs |-> c,
                          resid |-> res]
    /\ UNCHANGED <<fit, searches, gvars, kvars, wvars, fvars>>

\* spec 4.6: search_phase(flags, tolerance) hands the coefficient vector to fit
SearchBegin ==
    /\ orch.state \in OrchStates
    /\ fit.pc # "running"
    /\ searches < MaxSearches
    /\ searches' = searches + 1
    /\ fit' = [NoFit EXCEPT !.pc = "running",
                            !.initial_coeffs = InitialCoeffs(orch),
                            !.final_coeffs = fit.final_coeffs,
                            !.from = orch.state]
    /\ orch' = [orch EXCEPT !.coeffs = InitialCoeffs(orch)]
    /\ UNCHANGED <<gvars, kvars, wvars, fvars>>

\* spec 4.5: one iteration: a failed (residual-increasing) step is rejected, a
\* successful one is written to the coefficient vector in place (spec 3);
\* either way the iteration is counted (spec 7: a rejection is observable via
\* the iteration count)
Iterate ==
    /\ fit.pc = "running"
    /\ SearchFault(orch.cfg) = None
    /\ ~fit.converged
    /\ BudgetLeft(fit)
    /\ \/ /\ fit' = [fit EXCEPT !.iters = @ + 1, !.damping = DampingUp(@)]
          /\ UNCHANGED orch
       \/ \E new \in 0..orch.resid :
             /\ fit' = [fit EXCEPT !.iters = @ + 1,
                                   !.damping = DampingDown(@),
                                   !.converged = BelowTolerance(orch.resid, new)]
             /\ orch' = [orch EXCEPT
                            !.resid = new,
                            !.coeffs = IF new < orch.resid
                                         THEN (@ + 1) % Modulus ELSE @]
    /\ UNCHANGED <<searches, gvars, kvars, wvars, fvars>>

\* spec 4.5, 7: a singular step (degenerate active-parameter selection) is fatal
SingularStep ==
    /\ fit.pc = "running"
    /\ SearchFault(orch.cfg) # None
    /\ fit' = [fit EXCEPT !.pc = "raised"]
    /\ UNCHANGED <<orch, searches, gvars, kvars, wvars, fvars>>

\* spec 4.5: fit returns (final_coeffs, converged, iterations_used) once it has
\* converged or the budget is exhausted; spec 4.6: the instance is then Fitted
FitReturn ==
    /\ fit.pc = "running"
    /\ SearchFault(orch.cfg) = None
    /\ fit.converged \/ ~BudgetLeft(fit)
    /\ fit' = [fit EXCEPT !.pc = "returned", !.final_coeffs = orch.coeffs]
    /\ orch' = [orch EXCEPT !.state = StateAfterSolve(@)]
    /\ UNCHANGED <<searches, gvars, kvars, wvars, fvars>>

OrchInit ==
    /\ orch = NoOrch
    /\ fit = NoFit
    /\ searches = 0

OrchNext == OrchConstruct \/ SearchBegin \/ Iterate \/ SingularStep \/ FitReturn

\* the solver is a sequential loop of the calling thread: it keeps running
SolverStep == Iterate \/ SingularStep \/ FitReturn

\* ------------------------------------------- Part 4: parameter codec, mappy
\* (spec 4.3, 4.6).  Groups are sequences of numbers, scalars are numbers.

\* spec 4.3: the fixed field order of encode / decode
CodecOrder == <<"defoc_z", "focscale", "optax_x", "optax_y", "amplitude",
                "background", "phase", "illum", "object_fwhm_pix">>

\* lines 775-785: the attributes main.py passes, in positional order
EncodeArgsSwapped == <<"defoc_z", "focscale", "optax_y", "optax_x", "amplitude",
                       "background", "phase", "illum", "object_fwhm_pix">>
EncodeArgs == <<"defoc_z", "focscale", "optax_x", "optax_y", "amplitude",
                "background", "phase", "illum", "object_fwhm_pix">>

\* length of a group: per-image groups, the phase coefficients, shared scalars
GroupLen(f, nimg, nmodes) ==
    IF f \in ScalarFields THEN 1 ELSE IF f = "phase" THEN nmodes ELSE nimg

RECURSIVE Offset(_, _, _)
\* number of entries that precede the i-th group in the flat vector
Offset(i, nimg, nmodes) ==
    IF i = 1 THEN 0
    ELSE Offset(i - 1, nimg, nmodes) + GroupLen(CodecOrder[i - 1], nimg, nmodes)

TotalLen(nimg, nmodes) == Offset(10, nimg, nmodes)

\* a scalar enters the flat vector as one entry
AsVector(f, x) == IF f \in ScalarFields THEN <<x>> ELSE x

RECURSIVE Concat(_)
Concat(seqs) == IF seqs = <<>> THEN <<>> ELSE Head(seqs) \o Concat(Tail(seqs))

\* spec 4.3: encode: the groups, in the fixed order, concatenated
EncodeCoefficients(args) ==
    Concat([i \in 1..9 |-> AsVector(CodecOrder[i], args[i])])

\* spec 4.3: decode: the flat vector cut back into the groups
DecodeCoefficients(v, nimg, nmodes) ==
    [f \in Fields |->
        LET i   == CHOOSE j \in 1..9 : CodecOrder[j] = f
            off == Offset(i, nimg, nmodes)
        IN  IF f \in ScalarFields THEN v[off + 1]
            ELSE SubSeq(v, off + 1, off + GroupLen(f, nimg, nmodes))]

\* lines 775-785: opticsetup.encode_coefficients(opticsetup.defoc_z, ...)
EncodeCall(groups) == EncodeCoefficients([i \in 1..9 |-> groups[EncodeArgs[i]]])

\* encode of groups given by name
EncodeGroups(groups) == EncodeCoefficients([i \in 1..9 |-> groups[CodecOrder[i]]])

\* ---- inputs
ZeroGroup(f, len) == IF f \in ScalarFields THEN 0 ELSE [k \in 1..len |-> 0]
PatternGroup(f, len) ==
    LET i == CHOOSE j \in 1..9 : CodecOrder[j] = f
    IN  IF f \in ScalarFields THEN i
        ELSE [k \in 1..len |-> (i + 3 * k) % Modulus]

GroupInputs ==
    {[kind |-> "groups", nimg |-> n, nmodes |-> m,
      groups |-> [f \in Fields |->
                     IF f \in S THEN PatternGroup(f, GroupLen(f, n, m))
                     ELSE ZeroGroup(f, GroupLen(f, n, m))]] :
        n \in 1..MaxNimg, m \in 1..MaxModes, S \in SUBSET Fields}

VectorInputs ==
    {[kind |-> "vector", nimg |-> n, nmodes |-> m,
      v |-> [k \in 1..TotalLen(n, m) |-> (a * k + b) % Modulus]] :
        n \in 1..MaxNimg, m \in 1..MaxModes, a \in 0..3, b \in 0..1}

\* ---- mappy
\* numpy.zeros((N, N))
ZeroGrid(n) == [r \in 1..n |-> [c \in 1..n |-> 0]]

\* grid[r, c] = x
PlaceTransposed(g, r, c, x) == [g EXCEPT ![c][r] = x]
Place(g, r, c, x) == [g EXCEPT ![r][c] = x]

\* the illuminated index set as numpy.where gives it: (rows, cols), row-major
IdxOf(lit, n) ==
    LET cells == [k \in 1..(n * n) |-> <<((k - 1) \div n) + 1, ((k - 1) % n) + 1>>]
        on    == SelectSeq(cells, LAMBDA p : p \in lit)
    IN  <<[k \in 1..Len(on) |-> on[k][1]], [k \in 1..Len(on) |-> on[k][2]]>>

RECURSIVE Scatter(_, _, _, _)
\* grid[idx] = vec, one entry after the other
Scatter(g, idx, vec, k) ==
    IF k > Len(vec) THEN g
    ELSE Scatter(Place(g, idx[1][k], idx[2][k], vec[k]), idx, vec, k + 1)

\* spec 4.6: mappy scatters a value-per-illuminated-pixel vector onto the grid
mappy(vec, idx, n) == Scatter(ZeroGrid(n), idx, vec, 1)

PixelVector(pattern, nphi) ==
    [k \in 1..nphi |->
        CASE pattern = "ones"  -> 1
          [] pattern = "ramp"  -> (k + 1) % Modulus
          [] pattern = "zeros" -> 0]

MappyInputs ==
    UNION {{[kind |-> "pixels", n |-> n, lit |-> lit, idx |-> IdxOf(lit, n),
             vec |-> PixelVector(pt, Cardinality(lit))] :
               lit \in SUBSET ((1..n) \X (1..n)),
               pt \in {"ones", "ramp", "zeros"}} : n \in 1..MaxGrid}

NoGroups == [f \in {} |-> 0]
NoInput == [kind |-> None]

\* the attributes of the instance are encoded (lines 775-785)
Encode ==
    /\ kpc = "encode"
    /\ kflat' = EncodeCall(kin.groups)
    /\ kpc' = "decode"
    /\ UNCHANGED <<kin, kback, kflat2, mgrid, gvars, cvars, wvars, fvars>>

\* the solver's flat vector is cut back into groups
Decode ==
    /\ kpc = "decode"
    /\ kback' = DecodeCoefficients(kflat, kin.nimg, kin.nmodes)
    /\ kpc' = "reencode"
    /\ UNCHANGED <<kin, kflat, kflat2, mgrid, gvars, cvars, wvars, fvars>>

Reencode ==
    /\ kpc = "reencode"
    /\ kflat2' = EncodeGroups(kback)
    /\ kpc' = "done"
    /\ UNCHANGED <<kin, kflat, kback, mgrid, gvars, cvars, wvars, fvars>>

\* opticsetup.mappy(...) (lines 517, 664, 706, 752-756)
Mappy ==
    /\ kpc = "mappy"
    /\ mgrid' = mappy(kin.vec, kin.idx, kin.n)
    /\ kpc' = "done"
    /\ UNCHANGED <<kin, kflat, kback, kflat2, gvars, cvars, wvars, fvars>>

CodecIdle ==
    /\ kpc = "idle"
    /\ kin = NoInput
    /\ kflat = <<>>
    /\ kback = NoGroups
    /\ kflat2 = <<>>
    /\ mgrid = <<>>

CodecInit ==
    /\ kin \in GroupInputs \cup VectorInputs \cup MappyInputs
    /\ kpc = CASE kin.kind = "groups" -> "encode"
               [] kin.kind = "vector" -> "decode"
               [] kin.kind = "pixels" -> "mappy"
    /\ kflat = IF kin.kind = "vector" THEN kin.v ELSE <<>>
    /\ kback = NoGroups
    /\ kflat2 = <<>>
    /\ mgrid = <<>>

CodecNext == Encode \/ Decode \/ Reencode \/ Mappy

\* ------------------------------------- Part 5: /ws/logs and the log handler
\* websocket_logs and emit_async are coroutines of the event loop: each action
\* is the code one of them runs between two awaits.

Sockets == 1..MaxSockets
TaskIds == 1..MaxTasks

NoSock == [pc |-> "new", client |-> "open"]
NoTask == [pc |-> "none", origin |-> None, i |-> 0, target |-> 0,
           disconnected |-> <<>>]

InList(w, l) == \E k \in 1..Len(l) : l[k] = w
Elems(l) == {l[k] : k \in 1..Len(l)}

\* list.remove(x): the first occurrence goes
Remove(l, w) ==
    LET k == CHOOSE j \in 1..Len(l) : l[j] = w /\ \A m \in 1..(j - 1) : l[m] # w
    IN  SubSeq(l, 1, k - 1) \o SubSeq(l, k + 1, Len(l))

\* "if ws in active_websockets: active_websockets.remove(ws)" (lines 208-209,
\* 897-898)
Discard(l, w) == IF InList(w, l) THEN Remove(l, w) ELSE l

RECURSIVE DiscardAll(_, _)
\* lines 207-209: for ws in disconnected: ...
DiscardAll(l, ws) ==
    IF ws = <<>> THEN l ELSE DiscardAll(Discard(l, Head(ws)), Tail(ws))

\* the log records: where the record comes from (StdoutToLogger.write, lines
\* 46-49, or a logger call of the API such as lines 257 and 865), whether its
\* text contains "[CORE]", and whether anything is left once that is removed
LogRecords ==
    {[origin |-> "core", tagged |-> TRUE, blank |-> b] : b \in BOOLEAN} \cup
    {[origin |-> "api", tagged |-> t, blank |-> FALSE] : t \in BOOLEAN}

\* lines 167-186: the records emit goes on to broadcast
Broadcast(rec, l) == l # <<>> /\ rec.tagged /\ ~rec.blank

\* a send to w succeeds while its connection is open
SendOk(w) == wsock[w].client = "open" /\ wsock[w].pc \in {"welcome", "receiving"}

\* the tasks whose for loop (line 201) is under way
Looping == {t \in TaskIds : tasks[t].pc = "sending"}

\* history: a websocket that leaves the list was not registered throughout
StableAfter(l) == [t \in TaskIds |-> IF t \in Looping THEN stable[t] \cap Elems(l)
                                     ELSE stable[t]]

\* the client goes away
ClientClose(w) ==
    /\ wsock[w].pc # "ended"
    /\ wsock[w].client = "open"
    /\ wsock' = [wsock EXCEPT ![w].client = "closed"]
    /\ UNCHANGED <<active_websockets, tasks, delivered, stable, emit_removed,
                   gvars, cvars, kvars, fvars>>

\* lines 878-888: accept returns, the websocket is appended, the connection is
\* logged (an API record without "[CORE]") and the welcome send is awaited
Accept(w) ==
    /\ wsock[w].pc = "new"
    /\ \A v \in Sockets : v < w => wsock[v].pc # "new"
    /\ IF wsock[w].client = "open"
         THEN /\ active_websockets' = Append(active_websockets, w)
              /\ wsock' = [wsock EXCEPT ![w].pc = "welcome"]
         ELSE /\ wsock' = [wsock EXCEPT ![w].pc = "ended"]
              /\ UNCHANGED active_websockets
    /\ UNCHANGED <<tasks, delivered, stable, emit_removed, gvars, cvars, kvars, fvars>>

\* lines 886-890: the welcome send returns and the handler enters the try
\* block, or it raises and the handler ends there (the send is not in the try)
Welcome(w) ==
    /\ wsock[w].pc = "welcome"
    /\ wsock' = [wsock EXCEPT ![w].pc = IF wsock[w].client = "open"
                                          THEN "receiving" ELSE "ended"]
    /\ UNCHANGED <<active_websockets, tasks, delivered, stable, emit_removed,
                   gvars, cvars, kvars, fvars>>

\* lines 893-898: receive_text raises, the except logs it, the finally removes
\* the websocket
Disconnect(w) ==
    /\ wsock[w].pc = "receiving"
    /\ wsock[w].client = "closed"
    /\ wsock' = [wsock EXCEPT ![w].pc = "ended"]
    /\ active_websockets' = Discard(active_websockets, w)
    /\ stable' = StableAfter(active_websockets')
    /\ UNCHANGED <<tasks, delivered, emit_removed, gvars, cvars, kvars, fvars>>

\* lines 166-197: WebSocketHandler.emit on a record: asyncio.create_task
Emit ==
    \E rec \in LogRecords, t \in TaskIds :
        /\ Broadcast(rec, active_websockets)
        /\ tasks[t].pc = "none"
        /\ \A u \in TaskIds : u < t => tasks[u].pc # "none"
        /\ tasks' = [tasks EXCEPT ![t] = [NoTask EXCEPT !.pc = "created",
                                                        !.origin = rec.origin]]
        /\ UNCHANGED <<active_websockets, wsock, delivered, stable, emit_removed,
                       gvars, cvars, kvars, fvars>>

\* lines 201-209 from index i on: the next websocket of the list is sent to
\* (await), or the list is exhausted and the disconnected ones are removed
Advance(t, tk) ==
    IF tk.i < Len(active_websockets)
      THEN /\ tasks' = [tasks EXCEPT ![t] =
                           [tk EXCEPT !.pc = "sending", !.i = tk.i + 1,
                                      !.target = active_websockets[tk.i + 1]]]
           /\ UNCHANGED <<active_websockets, emit_removed>>
      ELSE /\ tasks' = [tasks EXCEPT ![t] = [tk EXCEPT !.pc = "done", !.target = 0]]
           /\ active_websockets' = DiscardAll(active_websockets, tk.disconnected)
           /\ emit_removed' = emit_removed \cup
                                 (Elems(tk.disconnected) \cap Elems(active_websockets))

\* line 200: emit_async starts
TaskStart(t) ==
    /\ tasks[t].pc = "created"
    /\ Advance(t, tasks[t])
    /\ stable' = [stable EXCEPT ![t] = Elems(active_websockets')]
    /\ UNCHANGED <<wsock, delivered, gvars, cvars, kvars, fvars>>

\* lines 202-205: the awaited send returns or raises, and the loop goes on
SendComplete(t) ==
    /\ tasks[t].pc = "sending"
    /\ LET w == tasks[t].target
       IN  IF SendOk(w)
             THEN /\ delivered' = [delivered EXCEPT ![t][w] = @ + 1]
                  /\ Advance(t, tasks[t])
             ELSE /\ UNCHANGED delivered
                  /\ Advance(t, [tasks[t] EXCEPT !.disconnected = Append(@, w)])
    /\ stable' = [u \in TaskIds |->
                     IF u \in Looping /\ tasks'[u].pc = "sending"
                       THEN stable[u] \cap Elems(active_websockets')
                       ELSE stable[u]]
    /\ UNCHANGED <<wsock, gvars, cvars, kvars, fvars>>

WsInit ==
    /\ active_websockets = <<>>
    /\ wsock = [w \in Sockets |-> NoSock]
    /\ tasks = [t \in TaskIds |-> NoTask]
    /\ delivered = [t \in TaskIds |-> [w \in Sockets |-> 0]]
    /\ stable = [t \in TaskIds |-> {}]
    /\ emit_removed = {}

WsNext ==
    \/ \E w \in Sockets : ClientClose(w)
    \/ \E w \in Sockets : Accept(w)
    \/ \E w \in Sockets : Welcome(w)
    \/ \E w \in Sockets : Disconnect(w)
    \/ Emit
    \/ \E t \in TaskIds : TaskStart(t)
    \/ \E t \in TaskIds : SendComplete(t)

\* ------------------------------- Part 6: StdoutToLogger while sys.stdout is
\* redirected to it (lines 34-52, 480-513, 584-617, 685-702).  fl.depth is the
\* number of StdoutToLogger.flush frames on the call stack.

NoFlush == [pc |-> "before", handler |-> None, prints |-> 0, depth |-> 0,
            exc |-> None, outcome |-> None]

\* lines 51-52: the object whose flush() the body of StdoutToLogger.flush calls
FlushTarget(stdout) == stdout

\* lines 480-481 / 584-585 / 686-687: sys.stdout = StdoutToLogger(logger)
Redirect ==
    /\ fl.pc = "before"
    /\ \E h \in {"preview", "search"} :
          fl' = [fl EXCEPT !.pc = "core", !.handler = h]
    /\ fl_stdout' = "logger"
    /\ UNCHANGED <<gvars, cvars, kvars, wvars>>

\* lines 46-49: the core prints a line: write logs it; the StreamHandler of
\* lines 24-28 writes to the stream it was given at import time
CoreWrite ==
    /\ fl.pc = "core"
    /\ fl.prints < MaxPrints
    /\ fl' = [fl EXCEPT !.prints = @ + 1]
    /\ UNCHANGED <<fl_stdout, gvars, cvars, kvars, wvars>>

\* the core flushes stdout (print(..., flush=True), sys.stdout.flush(), or the
\* flush input() makes after writing its prompt): sys.stdout.flush is called
CoreFlush ==
    /\ fl.pc = "core"
    /\ fl_stdout = "logger"
    /\ fl' = [fl EXCEPT !.pc = "in_flush", !.depth = 1]
    /\ UNCHANGED <<fl_stdout, gvars, cvars, kvars, wvars>>

\* lines 51-52: the body of flush: sys.stdout.flush().  On the real stream the
\* call returns; on the StdoutToLogger it is one more frame of the same
\* method, until the interpreter refuses with RecursionError
FlushBody ==
    /\ fl.pc = "in_flush"
    /\ IF FlushTarget(fl_stdout) = "real"
         THEN fl' = [fl EXCEPT !.pc = "returning"]
         ELSE IF fl.depth < MaxDepth
                THEN fl' = [fl EXCEPT !.depth = @ + 1]
                ELSE fl' = [fl EXCEPT !.pc = "unwinding", !.exc = "RecursionError"]
    /\ UNCHANGED <<fl_stdout, gvars, cvars, kvars, wvars>>

\* a frame of flush ends, by return or by the exception passing through it
FlushPop ==
    /\ fl.pc \in {"returning", "unwinding"}
    /\ fl' = IF fl.depth > 1
               THEN [fl EXCEPT !.depth = @ - 1]
               ELSE [fl EXCEPT !.depth = 0, !.pc = "flushed",
                               !.outcome = IF fl.exc = None THEN "returned"
                                           ELSE "raised"]
    /\ UNCHANGED <<fl_stdout, gvars, cvars, kvars, wvars>>

\* lines 510-513 / 614-617 / 701-702: finally: sys.stdout = old_stdout
Restore ==
    /\ fl.pc \in {"core", "flushed"}
    /\ fl' = [fl EXCEPT !.pc = "restored"]
    /\ fl_stdout' = "real"
    /\ UNCHANGED <<gvars, cvars, kvars, wvars>>

FlushInit ==
    /\ fl_stdout = "real"
    /\ fl = NoFlush

FlushNext == Redirect \/ CoreWrite \/ CoreFlush \/ FlushBody \/ FlushPop \/ Restore

\* ------------------------------------------------------------------ specifications

\* the parts a specification does not exercise stay as constructed
GatewayIdle == ParseInit /\ ReqInit /\ profile = "single"
OthersIdle == OrchInit /\ CodecIdle /\ WsInit /\ FlushInit

\* /api/parse-images on one upload
InitParse == ParseInit /\ ReqInit /\ profile = "single" /\ OthersIdle
SpecParse == InitParse /\ [][ParseNext]_vars

\* one request to /api/preview-config or /api/search-phase, any body
InitReq == ParseInit /\ ReqInit /\ profile = "single" /\ OthersIdle
SpecReq == InitReq /\ [][ReqNext]_vars

\* several requests in flight on the event loop
Init == ParseInit /\ ReqInit /\ profile = "concurrent" /\ OthersIdle
Next == ReqNext
Spec == Init /\ [][Next]_vars

\* one Opticsetup instance, constructed and searched up to MaxSearches times
InitOrch == GatewayIdle /\ OrchInit /\ CodecIdle /\ WsInit /\ FlushInit
SpecOrch == InitOrch /\ [][OrchNext]_vars /\ WF_vars(SolverStep)

\* encode, decode and mappy applied to one input
InitCodec == GatewayIdle /\ OrchInit /\ CodecInit /\ WsInit /\ FlushInit
SpecCodec == InitCodec /\ [][CodecNext]_vars

\* websocket clients, log records and broadcasts on the event loop
InitWs == GatewayIdle /\ OrchInit /\ CodecIdle /\ WsInit /\ FlushInit
SpecWs == InitWs /\ [][WsNext]_vars

\* the core printing and flushing while sys.stdout is the StdoutToLogger
InitFlush == GatewayIdle /\ OthersIdle
SpecFlush == InitFlush /\ [][FlushNext]_vars

\* ------------------------------------------------------------------ claims

\* C1: load_flexible_image_collection returns normally only with at least
\* MIN_IMAGES images collected; with fewer it raises HTTP 400, and parse_images
\* hands that 400 (not a 500) to the caller.
C1_MinImages ==
    /\ load_result = "returned" => Len(images_list) >= MIN_IMAGES
    /\ (lpc \in {"loaded", "stacked", "done"} /\ Len(images_list) < MIN_IMAGES)
          => load_result = "raised400"
    /\ (lpc = "done" /\ load_result = "raised400")
          => (presp.status = 400 /\ presp.detail = MinDetail)

C1_Witness ==
    /\ lpc = "done"
    /\ Len(images_list) = 1
    /\ files_read >= 1
    /\ presp.status = 400

\* C2: whenever the collected images do not all have the same (H, W) shape,
\* parse_images ends with an error response; every successful response has
\* stats.shape_consistent true.
C2_ShapesFatal ==
    /\ (lpc = "done" /\ load_result = "returned" /\ ~ShapeConsistent(images_list))
          => presp.status \in {400, 500}
    /\ lpc = "stacked" => ShapeConsistent(images_list)
    /\ presp.status = 200 => presp.shape_consistent

C2_Witness ==
    /\ lpc = "done"
    /\ load_result = "returned"
    /\ ~ShapeConsistent(images_list)
    /\ presp.status = 400
    /\ presp.detail = StackDetail

\* C3: at every point of load_flexible_image_collection at most MAX_IMAGES
\* images are collected; the warning is non-null exactly when a further 2D image
\* or cube slice was met with MAX_IMAGES already collected; once it is set no
\* later HDU or file is read; the response carries that warning.
C3_Limit ==
    /\ [](/\ Len(images_list) <= MAX_IMAGES
          /\ (warning # None) <=> overflow
          /\ presp.status = 200 => presp.warning = warning)
    /\ [][warning # None =>
             /\ files_seen' = files_seen
             /\ files_read' = files_read
             /\ hdus_read' = hdus_read
             /\ images_list' = images_list]_vars

C3_Witness ==
    /\ presp.status = 200
    /\ presp.warning = LimitWarning
    /\ overflow
    /\ Len(images_list) = MAX_IMAGES
    /\ files_seen < MaxFiles

Done(r) == req[r].pc = "done"

\* C4: a fault raised by Opticsetup construction or by search_phase reaches the
\* caller as exactly one error response whose detail is the fault's message, and
\* no success payload (success, results) is returned for that request.
C4_FaultIsOneError ==
    \A r \in Clients :
        /\ req[r].sent <= 1
        /\ (Done(r) /\ req[r].exc # None) =>
              /\ req[r].sent = 1
              /\ req[r].response.status = 500
              /\ req[r].response.detail = req[r].exc
              /\ ~req[r].response.success
              /\ "results" \notin req[r].response.keys
              /\ req[r].response.results = NoResults
        /\ (Done(r) /\ req[r].body.cfg = "zero_area") =>
              req[r].response.detail = ConstructFault("zero_area")
        /\ (Done(r) /\ req[r].body.cfg = "degenerate"
                    /\ req[r].body.endpoint = "search") =>
              req[r].response.detail = SearchFault("degenerate")

C4_Witness ==
    \E r \in Clients :
        /\ Done(r)
        /\ req[r].search_call = "raised"
        /\ req[r].response.status = 500
        /\ req[r].response.detail = SearchFault("degenerate")

\* C5: in /api/search-phase the results are built only after
\* opticsetup.search_phase has returned on the same instance; if that call does
\* not complete, no results are produced.
C5_ResultsAfterSolve ==
    \A r \in Clients :
        /\ "results" \in req[r].response.keys => req[r].search_call = "returned"
        /\ req[r].pc = "extract" =>
              /\ req[r].search_call = "returned"
              /\ heap[req[r].opticsetup].state = "Fitted"
              /\ heap[req[r].opticsetup].owner = r
        /\ (Done(r) /\ req[r].search_call # "returned") =>
              req[r].response.results = NoResults

C5_Witness ==
    \E r \in Clients :
        /\ Done(r)
        /\ "results" \in req[r].response.keys
        /\ req[r].search_call = "returned"
        /\ req[r].response.results["phase"] = <<4, 2, 5>>

SameApartFromDuration(a, b) == [a EXCEPT !.duration_ms = 0] = [b EXCEPT !.duration_ms = 0]

C7_Isolation ==
    /\ \A id \in DOMAIN heap :
          /\ heap[id].accessed_by = {heap[id].owner}
          /\ req[heap[id].owner].opticsetup = id
    /\ \A r, q \in Clients :
          (r # q /\ req[r].opticsetup # 0) => req[r].opticsetup # req[q].opticsetup
    /\ \A r \in Clients :
          Executing(r) =>
             /\ sys_stdin.kind = "mock" => sys_stdin.owner = r
             /\ sys_stdout.kind = "logger" => sys_stdout.owner = r

C7_Witness ==
    \E r, q \in Clients :
        /\ r # q
        /\ req[r].pc = "searching"
        /\ req[q].pc = "pending"
        /\ sys_stdout = LoggerStdout(r)
        /\ req[r].opticsetup \in DOMAIN heap

\* C8: every successful /api/search-phase response carries the advisory
\* warnings raised while serving it.
C8_WarningsInBundle ==
    \A r \in Clients :
        (Done(r) /\ req[r].body.endpoint = "search" /\ req[r].response.success)
           => /\ req[r].response.warnings = req[r].advisories
              /\ (req[r].advisories # {} => "warnings" \in req[r].response.keys)

\* C9: whenever an endpoint executes core code (Opticsetup construction, and
\* the call of opticsetup.search_phase), sys.stdin is the mocked stream.
C9_StdinMockedInCore ==
    \A r \in Clients :
        req[r].pc \in {"constructing", "searching"} => sys_stdin.kind = "mock"

\* C10: at the moment search_phase starts, each of the nine groups whose
\* initial_* field is supplied holds the supplied value and every other group
\* holds the value construction gave it; the injection comes after construction
\* and before the solve.
C10_Continuation ==
    \A r \in Clients :
        /\ req[r].pc = "inject" =>
              /\ heap[req[r].opticsetup].vals = Constructed(req[r].body)
              /\ req[r].search_call = "none"
        /\ req[r].pc = "searching" =>
              /\ heap[req[r].opticsetup].state = "Configured"
              /\ \A f \in Fields :
                    IF f \in DOMAIN req[r].body.initial
                      THEN ToJson(f, heap[req[r].opticsetup].vals[f])
                              = req[r].body.initial[f]
                      ELSE heap[req[r].opticsetup].vals[f]
                              = Constructed(req[r].body)[f]

C10_Witness ==
    \E r \in Clients :
        /\ req[r].pc = "searching"
        /\ DOMAIN req[r].body.initial = {"optax_x", "focscale", "illum"}
        /\ heap[req[r].opticsetup].vals["optax_x"] = NpArray(<<6, 0>>)
        /\ heap[req[r].opticsetup].vals["optax_y"] = NpArray(<<0, 0>>)
        /\ heap[req[r].opticsetup].vals["focscale"] = 2

\* C11: preview_config never invokes search_phase on its Opticsetup (the
\* instance stays Configured) and its response contains no 'results' entry.
C11_PreviewNeverSolves ==
    \A r \in Clients :
        req[r].body.endpoint = "preview" =>
           /\ req[r].search_call = "none"
           /\ req[r].pc \notin {"inject", "enter_search", "searching",
                                "search_exit", "extract"}
           /\ req[r].opticsetup # 0 =>
                 heap[req[r].opticsetup].state = "Configured"
           /\ "results" \notin req[r].response.keys
           /\ req[r].response.results = NoResults

C11_Witness ==
    \E r \in Clients :
        /\ Done(r)
        /\ req[r].body.endpoint = "preview"
        /\ req[r].response.success
        /\ req[r].response.keys = ConfigInfoKeys

\* the coefficient groups at the moment opticsetup.search_phase is called
AtSearchStart(body) == Inject(Constructed(body), body.initial)

C20_StreamsRestored ==
    /\ [](running = 0 => (sys_stdin = RealStdin /\ sys_stdout = RealStdout))
    /\ [][\A r \in Clients :
             (req[r].pc # "done" /\ req'[r].pc = "done") =>
                /\ sys_stdin' = req[r].old_stdin
                /\ sys_stdout' = req[r].old_stdout
                /\ sys_stdin' = RealStdin
                /\ sys_stdout' = RealStdout]_vars

C20_Witness ==
    \E r \in Clients :
        /\ Done(r)
        /\ req[r].search_call = "raised"
        /\ req[r].response.status = 500
        /\ sys_stdin = RealStdin
        /\ sys_stdout = RealStdout

\* C12: an instance is Configured or Fitted; construction yields Configured; a
\* converged or exhausted search_phase leaves it Fitted; a search_phase on a
\* Fitted instance starts from the coefficient vector the previous solve left
\* and leaves the instance Fitted; nothing takes a Fitted instance back to
\* Configured.
C12_TwoStates ==
    /\ [](orch.state \in OrchStates \cup {"Absent"})
    /\ [][orch.state = "Absent" /\ orch'.state # "Absent"
             => orch'.state = "Configured" /\ fit'.pc = "idle"]_vars
    /\ [][fit.pc = "running" /\ fit'.pc = "returned" => orch'.state = "Fitted"]_vars
    /\ [][orch.state = "Configured" /\ orch'.state # "Configured"
             => fit'.pc = "returned" /\ orch'.state = "Fitted"]_vars
    /\ [][orch.state = "Fitted" /\ fit'.pc = "running" /\ fit.pc = "returned"
             => /\ fit'.initial_coeffs = fit.final_coeffs
                /\ orch'.coeffs = fit.final_coeffs]_vars
    /\ [][orch.state = "Fitted" => orch'.state = "Fitted"]_vars

C12_Witness ==
    /\ orch.state = "Fitted"
    /\ searches = 2
    /\ fit.pc = "returned"
    /\ fit.from = "Fitted"
    /\ fit.initial_coeffs # 0
    /\ fit.final_coeffs # fit.initial_coeffs

\* C15 as written: a fit that has stopped has returned a coefficient vector,
\* converged or with max_iterations reached, and has not raised.
C15_StopsOnlyByReturning ==
    fit.pc \in {"returned", "raised"} =>
       /\ fit.pc = "returned"
       /\ fit.converged \/ fit.iters = MaxIterations

\* C15: every fit terminates; it returns a coefficient vector either converged
\* or with max_iterations reached and converged = false, or it raises the
\* singular-step fault; iterations_used never exceeds max_iterations.
C15_FitTerminates ==
    /\ (fit.pc = "running") ~> (fit.pc \in {"returned", "raised"})
    /\ [](fit.iters <= MaxIterations)
    /\ [](fit.pc = "returned" =>
             /\ fit.converged \/ fit.iters = MaxIterations
             /\ fit.final_coeffs = orch.coeffs)
    /\ [](fit.pc = "raised" => SearchFault(orch.cfg) # None)

C15_Witness ==
    /\ fit.pc = "returned"
    /\ ~fit.converged
    /\ fit.iters = MaxIterations
    /\ fit.damping = MaxDamping

\* C13: decode(encode(groups)) = groups and encode(decode(v)) = v exactly, for
\* groups given in the documented order, and two different inputs of the same
\* group lengths never encode to the same vector.
C13_RoundTrip ==
    /\ (kin.kind = "groups" /\ kpc \in {"reencode", "done"}) =>
          /\ kback = kin.groups
          /\ Len(kflat) = TotalLen(kin.nimg, kin.nmodes)
          /\ \A g \in GroupInputs :
                (g.nimg = kin.nimg /\ g.nmodes = kin.nmodes
                    /\ EncodeCall(g.groups) = kflat) => g.groups = kin.groups
    /\ (kin.kind \in {"groups", "vector"} /\ kpc = "done") => kflat2 = kflat

C13_Witness ==
    /\ kin.kind = "groups"
    /\ kpc = "done"
    /\ kin.nimg = 2
    /\ kin.groups["optax_x"] # kin.groups["optax_y"]
    /\ kin.groups["focscale"] # 0
    /\ kback = kin.groups

\* C14: mappy returns an N x N grid that holds the input value at every position
\* of the illuminated index set and zero at every other position.
C14_MappyScatter ==
    (kin.kind = "pixels" /\ kpc = "done") =>
       /\ DOMAIN mgrid = 1..kin.n
       /\ \A r \in 1..kin.n : DOMAIN mgrid[r] = 1..kin.n
       /\ \A k \in 1..Len(kin.vec) :
             mgrid[kin.idx[1][k]][kin.idx[2][k]] = kin.vec[k]
       /\ \A r, c \in 1..kin.n :
             <<r, c>> \notin kin.lit => mgrid[r][c] = 0

C14_Witness ==
    /\ kin.kind = "pixels"
    /\ kpc = "done"
    /\ kin.lit = {<<1, 2>>, <<2, 2>>}
    /\ mgrid = <<<<0, 2>>, <<0, 3>>>>

\* C17: every message a websocket receives from a broadcast comes from a record
\* of the core's redirected stdout; a record of the API's own logger calls is
\* never broadcast, whatever its text.
C17_OnlyCoreBroadcast ==
    \A t \in TaskIds :
        /\ tasks[t].pc # "none" => tasks[t].origin = "core"
        /\ \A w \in Sockets : delivered[t][w] > 0 => tasks[t].origin = "core"

\* C18: a websocket is in active_websockets only while its websocket_logs
\* handler is running after accept; once the handler has ended, for any reason,
\* it is not in the list; no websocket is in the list twice.
C18_Registry ==
    /\ \A w \in Sockets :
          InList(w, active_websockets) => wsock[w].pc \in {"welcome", "receiving"}
    /\ \A j, k \in 1..Len(active_websockets) :
          active_websockets[j] = active_websockets[k] => j = k

\* C19: when a broadcast is over, every websocket that was registered during
\* all of it and to which sends succeed has received the message exactly once,
\* and emit_async has removed only websockets whose send raised.
C19_ExactlyOnce ==
    /\ \A t \in TaskIds :
          tasks[t].pc = "done" =>
             \A w \in stable[t] : SendOk(w) => delivered[t][w] = 1
    /\ \A t \in TaskIds, w \in Sockets : delivered[t][w] <= 1
    /\ \A w \in emit_removed : ~SendOk(w)

\* C21: a call of StdoutToLogger.flush made while sys.stdout is that same
\* StdoutToLogger returns: it never ends in an exception, and it does not nest
\* up to the depth at which the interpreter stops it.
C21_FlushReturns ==
    /\ fl.exc = None
    /\ fl.outcome # "raised"
    /\ fl.depth < MaxDepth

====
